---- MODULE Spec2Model ----
(***************************************************************************)
(* Model of the EPUB ingestion pipeline and in-memory catalog of           *)
(* backend/store.go (Store, ingest, unzipFile, findRootfile, parseOPF,     *)
(* findNavItem, extractNav, normJoin) and of the file route of main.       *)
(*                                                                         *)
(* Go strings are TLA+ strings; positions are 1-based, 0 meaning "absent"  *)
(* where Go returns -1.                                                    *)
(***************************************************************************)
EXTENDS Integers, Sequences, FiniteSets, TLC

(***************************************************************************)
(* strings: the standard-library functions the code calls                  *)
(***************************************************************************)

\* the byte/rune of s at position i, as a one-character string
At(s, i) == SubSeq(s, i, i)

\* strings.HasPrefix(s[i:], sub)
MatchAt(s, sub, i) ==
    /\ i + Len(sub) - 1 <= Len(s)
    /\ SubSeq(s, i, i + Len(sub) - 1) = sub

\* strings.Index: position of the first occurrence of sub in s, 0 if none
Index(s, sub) ==
    LET hits == {i \in 1..(Len(s) + 1) : MatchAt(s, sub, i)}
    IN  IF hits = {} THEN 0 ELSE CHOOSE i \in hits : \A j \in hits : i <= j

\* strings.Contains
Contains(s, sub) == Index(s, sub) # 0

\* strings.Split(s, sep) for a one-character separator
RECURSIVE Split(_, _)
Split(s, sep) ==
    LET i == Index(s, sep)
    IN  IF i = 0 THEN <<s>>
        ELSE <<SubSeq(s, 1, i - 1)>> \o Split(SubSeq(s, i + 1, Len(s)), sep)

\* strings.Join(elems, sep)
RECURSIVE Join(_, _)
Join(elems, sep) ==
    IF elems = <<>> THEN ""
    ELSE IF Len(elems) = 1 THEN elems[1]
    ELSE elems[1] \o sep \o Join(Tail(elems), sep)

\* U+00A0 (no-break space); the model writes it as the one character "~"
NBSP == "~"

\* unicode.IsSpace on the characters the model's texts use
IsSpace(c) == c \in {" ", "\t", "\n", "\r", "\f", NBSP}

\* strings.TrimSpace
RECURSIVE TrimLeft(_)
TrimLeft(s) ==
    IF Len(s) > 0 /\ IsSpace(At(s, 1)) THEN TrimLeft(SubSeq(s, 2, Len(s))) ELSE s

RECURSIVE TrimRight(_)
TrimRight(s) ==
    IF Len(s) > 0 /\ IsSpace(At(s, Len(s)))
    THEN TrimRight(SubSeq(s, 1, Len(s) - 1)) ELSE s

TrimSpace(s) == TrimRight(TrimLeft(s))

\* strings.ReplaceAll(s, old, new) for a one-character old
RECURSIVE ReplaceAll(_, _, _)
ReplaceAll(s, old, new) ==
    IF s = "" THEN ""
    ELSE (IF At(s, 1) = old THEN new ELSE At(s, 1))
         \o ReplaceAll(SubSeq(s, 2, Len(s)), old, new)

(***************************************************************************)
(* package path: Clean, Join, Dir                                          *)
(***************************************************************************)

\* the element stack of path.Clean after reading segs left to right
RECURSIVE CleanSegs(_, _, _)
CleanSegs(segs, out, rooted) ==
    IF segs = <<>> THEN out
    ELSE LET seg == Head(segs)
             rest == Tail(segs)
         IN  IF seg = "" \/ seg = "." THEN CleanSegs(rest, out, rooted)
             ELSE IF seg = ".."
                  THEN IF out # <<>> /\ out[Len(out)] # ".."
                       THEN CleanSegs(rest, SubSeq(out, 1, Len(out) - 1), rooted)
                       ELSE IF rooted THEN CleanSegs(rest, out, rooted)
                       ELSE CleanSegs(rest, Append(out, ".."), rooted)
                  ELSE CleanSegs(rest, Append(out, seg), rooted)

\* path.Clean
pathClean(p) ==
    LET rooted == Len(p) > 0 /\ At(p, 1) = "/"
        out == CleanSegs(Split(p, "/"), <<>>, rooted)
    IN  IF rooted THEN "/" \o Join(out, "/")
        ELSE IF out = <<>> THEN "."
        ELSE Join(out, "/")

\* path.Join / filepath.Join: empty elements are ignored, the rest joined and cleaned
pathJoin(elems) ==
    LET nonEmpty == SelectSeq(elems, LAMBDA e : e # "")
    IN  IF nonEmpty = <<>> THEN "" ELSE pathClean(Join(nonEmpty, "/"))

\* position of the last "/" of p, 0 if none (strings.LastIndex)
LastSlash(p) ==
    LET hits == {i \in 1..Len(p) : At(p, i) = "/"}
    IN  IF hits = {} THEN 0 ELSE CHOOSE i \in hits : \A j \in hits : j <= i

\* path.Dir
pathDir(p) == pathClean(SubSeq(p, 1, LastSlash(p)))

\* a plausible slip: join without cleaning
normJoinNoClean(base, rel) ==
    IF rel = "" THEN base ELSE base \o "/" \o rel

\* normJoin (Path Resolver)
normJoin(base, rel) ==
    IF rel = "" THEN base ELSE pathClean(pathJoin(<<base, rel>>))

(***************************************************************************)
(* navigation document: findNavItem, extractNav, between, stripTags        *)
(***************************************************************************)

\* a Go slice of NavItem: nil, or a (possibly empty) sequence
NilSlice == [isNil |-> TRUE, elems |-> <<>>]
Slice(elems) == [isNil |-> FALSE, elems |-> elems]

\* between(s, a, b): the text after the first a up to the next b, "" if either is absent
between(s, a, b) ==
    LET i == Index(s, a)
    IN  IF i = 0 THEN ""
        ELSE LET t == SubSeq(s, i + Len(a), Len(s))
                 j == Index(t, b)
             IN  IF j = 0 THEN "" ELSE SubSeq(t, 1, j - 1)

\* the runes stripTags keeps: those outside <...>; in is the loop's flag
RECURSIVE stripLoop(_, _)
stripLoop(s, in) ==
    IF s = "" THEN ""
    ELSE LET r == At(s, 1)
             rest == SubSeq(s, 2, Len(s))
         IN  IF r = "<" THEN stripLoop(rest, TRUE)
             ELSE IF r = ">" THEN stripLoop(rest, FALSE)
             ELSE IF ~in THEN r \o stripLoop(rest, in)
             ELSE stripLoop(rest, in)

\* stripTags
stripTags(s) == TrimSpace(ReplaceAll(stripLoop(s, FALSE), NBSP, " "))

\* the loop of extractNav over the lines of the document
RECURSIVE navLines(_)
navLines(lines) ==
    IF lines = <<>> THEN <<>>
    ELSE LET line == TrimSpace(Head(lines))
             href == between(line, "href=\"", "\"")
             text == stripTags(line)
         IN  (IF Contains(line, "<a ") /\ href # "" /\ text # ""
              THEN <<[Href |-> href, Text |-> text]>> ELSE <<>>)
             \o navLines(Tail(lines))

\* extractNav on a document that was read: the (non-nil) items of its text
extractNavText(t) == Slice(navLines(Split(t, "\n")))

\* the candidates of findNavItem, in manifest order
navCandidates(p) ==
    LET cand == SelectSeq(p.Manifest,
                    LAMBDA it : Contains(it.Href, "nav") \/ Contains(it.Href, "toc"))
    IN  [k \in 1..Len(cand) |-> cand[k].Href]

\* findNavItem: "" without candidate; otherwise candidates[0] after sort.Slice by
\* length. sort.Slice is not stable, so any candidate of minimal length can come first:
\* the set of the values the call can return
findNavItem(p) ==
    LET cand == navCandidates(p)
    IN  IF cand = <<>> THEN {""}
        ELSE {cand[k] : k \in {k \in 1..Len(cand) :
                                \A j \in 1..Len(cand) : Len(cand[k]) <= Len(cand[j])}}

(***************************************************************************)
(* files, documents and archives                                           *)
(***************************************************************************)

\* what xml.Unmarshal makes of a document: a container descriptor, a package, or an
\* error (root "": not well-formed, or another root element than the target's XMLName)
Malformed == [root |-> "", Rootfiles |-> <<>>, Meta |-> [Title |-> "", Creator |-> ""],
              Manifest |-> <<>>, Spine |-> <<>>]
Container(rootfiles) == [Malformed EXCEPT !.root = "container", !.Rootfiles = rootfiles]
Package(title, creator, manifest, spine) ==
    [Malformed EXCEPT !.root = "package", !.Meta = [Title |-> title, Creator |-> creator],
                      !.Manifest = manifest, !.Spine = spine]
Item(id, href, mediaType) == [ID |-> id, Href |-> href, MediaType |-> mediaType]
Itemref(idref) == [IDRef |-> idref]

\* a node of the file system: a directory, the stored upload (Zip names its archive, ""
\* when its bytes are no ZIP file), or an extracted file with its text and XML reading
DirNode == [kind |-> "dir", Zip |-> "", Text |-> "", Xml |-> Malformed]
EpubNode(zip) == [kind |-> "file", Zip |-> zip, Text |-> "", Xml |-> Malformed]
FileNode(text, xml) == [kind |-> "file", Zip |-> "", Text |-> text, Xml |-> xml]
\* a file created and truncated whose copy failed
Truncated == FileNode("", Malformed)

\* an archive entry (zip.File): name, directory flag, content
FileEntry(name, text, xml) == [Name |-> name, IsDir |-> FALSE, Data |-> FileNode(text, xml)]
DirEntry(name) == [Name |-> name, IsDir |-> TRUE, Data |-> DirNode]

XHTML == "application/xhtml+xml"

ContainerText(fullPath) ==
    "<container><rootfiles><rootfile full-path=\"" \o fullPath \o "\"/></rootfiles></container>"

\* the end-to-end archive: package in OEBPS/, one chapter, a navigation document
GoodArchive ==
    <<FileEntry("META-INF/container.xml", ContainerText("OEBPS/content.opf"),
                Container(<<"OEBPS/content.opf">>)),
      DirEntry("OEBPS/"),
      FileEntry("OEBPS/content.opf", "<package>Alice</package>",
                Package("  Alice\n", "Carroll",
                        <<Item("c1", "chap1.xhtml", XHTML), Item("nav", "nav.xhtml", XHTML)>>,
                        <<Itemref("c1")>>)),
      FileEntry("OEBPS/nav.xhtml",
                "<nav>\n  <a href=\"chap1.xhtml\">Chapter 1</a>\n</nav>", Malformed)>>

\* package at the archive root, no creator, no nav/toc-like item, a spine itemref
\* whose idref is no manifest item
GhostArchive ==
    <<FileEntry("META-INF/container.xml", ContainerText("content.opf"),
                Container(<<"content.opf">>)),
      FileEntry("content.opf", "<package>Bob</package>",
                Package("Bob", "", <<Item("c1", "text/c1.xhtml", XHTML)>>,
                        <<Itemref("c1"), Itemref("ghost")>>))>>

\* package in OEBPS/, two nav/toc-like items of which the shorter (toc.ncx) is not in
\* the archive, and a spine itemref whose idref is no manifest item
LostNavArchive ==
    <<DirEntry("META-INF/"),
      FileEntry("META-INF/container.xml", ContainerText("OEBPS/content.opf"),
                Container(<<"OEBPS/content.opf">>)),
      FileEntry("OEBPS/content.opf", "<package>Eve</package>",
                Package("Eve", "Anon",
                        <<Item("c1", "c1.xhtml", XHTML), Item("nav", "nav.xhtml", XHTML),
                          Item("ncx", "toc.ncx", "application/x-dtbncx+xml")>>,
                        <<Itemref("ghost"), Itemref("c1")>>))>>

\* a container descriptor that declares no rootfile
NoRootfileArchive ==
    <<FileEntry("META-INF/container.xml", "<container><rootfiles/></container>",
                Container(<<>>))>>

\* a package document that is not well-formed XML
BadPackageArchive ==
    <<FileEntry("META-INF/container.xml", ContainerText("content.opf"),
                Container(<<"content.opf">>)),
      FileEntry("content.opf", "<package", Malformed)>>

\* the archives by name; "notzip" names bytes that are no ZIP file
Archives ==
    [a \in {"good", "ghost", "lostnav", "norootfile", "badpackage"} |->
        CASE a = "good" -> GoodArchive
          [] a = "ghost" -> GhostArchive
          [] a = "lostnav" -> LostNavArchive
          [] a = "norootfile" -> NoRootfileArchive
          [] a = "badpackage" -> BadPackageArchive]

\* the uploads a client can send (multipart.FileHeader and the file's bytes); the
\* first two have the same name and size and different content
Upload(filename, size, bytes) == [Filename |-> filename, Size |-> size, Bytes |-> bytes]
Uploads ==
    { Upload("book.epub", 900, "good"), Upload("book.epub", 900, "ghost"),
      Upload("eve.epub", 700, "lostnav"), Upload("bad.epub", 300, "norootfile"),
      Upload("bad.epub", 300, "badpackage"), Upload("note.txt", 5, "notzip") }

(***************************************************************************)
(* state                                                                   *)
(***************************************************************************)

\* bounds of the model
MaxClock == 1       \* readings of the clock after the first

\* the upload requests of a run, each served in its own goroutine
Workers == {1, 2}

VARIABLES
    now,        \* time.Now().UnixNano()
    books,      \* Store.books: identifier -> *BookInfo
    disk,       \* rootDir: identifier -> (path below the book directory -> node)
    pc,         \* per upload request: where it is in Store.ingest ("idle" before it
                \* arrives, "done" once it is answered)
    fr,         \* per upload request: the locals of Store.ingest and unzipFile
    uploaded,   \* the responses UploadEPUB has written, in order
    resp,       \* the response of the read request being answered
    call        \* the latest call of normJoin (the Path Resolver on its own)

vars == <<now, books, disk, pc, fr, uploaded, resp, call>>

NoId == <<>>
NilPtr == [nil |-> TRUE]

\* the locals of a request that is not running
NoFrame == [u |-> Upload("", 0, ""), id |-> NoId, zr |-> "", i |-> 0,
            rootfile |-> "", opf |-> NilPtr, toc |-> NilPtr]

NoResp == [op |-> "", id |-> NoId, status |-> 0, body |-> <<>>]
NoCall == [base |-> "", rel |-> "", out |-> "", done |-> FALSE]

Init ==
    /\ now = 0
    /\ books = <<>>
    /\ disk = <<>>
    /\ pc = [p \in Workers |-> "idle"]
    /\ fr = [p \in Workers |-> NoFrame]
    /\ uploaded = <<>>
    /\ resp = NoResp
    /\ call = NoCall

\* No response is being written. The read handlers take the read lock only and change
\* nothing of the store, so a read request is followed to its response (Respond) before
\* the next step is taken: this leaves out no state of the store and no response.
Quiet == resp.op = ""

\* the clock advances
Tick ==
    /\ Quiet
    /\ now < MaxClock
    /\ now' = now + 1
    /\ UNCHANGED <<books, disk, pc, fr, uploaded, resp, call>>

(***************************************************************************)
(* Store.ingest, step by step, and UploadEPUB's response                   *)
(***************************************************************************)

\* the identifier: the first 12 hex digits of sha1(filename + "-size-time"). The
\* digest is modelled as injective on its three inputs (no hash collision)
bookId(filename, size, t) == <<filename, size, t>>

\* paths below the book directory
epubPath == "book.epub"
root == "unpacked"

\* the files of book directory id ((<<>>) when the directory does not exist)
Dir(id) == IF id \in DOMAIN disk THEN disk[id] ELSE <<>>
Exists(id, path) == path \in DOMAIN Dir(id)
IsFile(id, path) == Exists(id, path) /\ Dir(id)[path].kind = "file"
WriteNode(id, path, node) == (id :> ((path :> node) @@ Dir(id))) @@ disk

\* UploadEPUB after ingest returned an error: 400, nothing else changes
Reject(p) ==
    /\ uploaded' = Append(uploaded, [status |-> 400, id |-> NoId, title |-> "", author |-> ""])
    /\ pc' = [pc EXCEPT ![p] = "done"]
    /\ fr' = [fr EXCEPT ![p] = NoFrame]

Running == {p \in Workers : pc[p] \notin {"idle", "done"}}

\* lines 200-209: derive the identifier, create the book directory
\* (the requests are interchangeable: they arrive in the order of their numbers)
IngestBegin(p, u, ok) ==
    /\ Quiet
    /\ pc[p] = "idle"
    /\ \A q \in Workers : q < p => pc[q] # "idle"
    /\ LET id == bookId(u.Filename, u.Size, now)
       IN  IF ok
           THEN /\ disk' = (id :> Dir(id)) @@ disk
                /\ pc' = [pc EXCEPT ![p] = "write"]
                /\ fr' = [fr EXCEPT ![p] = [NoFrame EXCEPT !.u = u, !.id = id]]
                /\ UNCHANGED uploaded
           ELSE /\ Reject(p)
                /\ UNCHANGED disk
    /\ UNCHANGED <<now, books, resp, call>>

\* lines 211-221: store the upload as book.epub; how is "ok", "create" (os.Create
\* failed) or "copy" (io.Copy failed on the created, truncated file)
IngestWrite(p, how) ==
    /\ Quiet
    /\ pc[p] = "write"
    /\ LET id == fr[p].id
       IN  CASE how = "ok" ->
                  /\ disk' = WriteNode(id, epubPath, EpubNode(fr[p].u.Bytes))
                  /\ pc' = [pc EXCEPT ![p] = "unzip"]
                  /\ UNCHANGED <<fr, uploaded>>
             [] how = "copy" ->
                  /\ disk' = WriteNode(id, epubPath, EpubNode(""))
                  /\ Reject(p)
             [] how = "create" ->
                  /\ UNCHANGED disk
                  /\ Reject(p)
    /\ UNCHANGED <<now, books, resp, call>>

\* the step after the archive's entry i: the next entry, or unzipFile returns nil
AfterEntry(zr, i) == IF i < Len(Archives[zr]) THEN "entry" ELSE "container"

\* lines 265-269: zip.OpenReader on the stored upload
UnzipOpen(p, ok) ==
    /\ Quiet
    /\ pc[p] = "unzip"
    /\ LET zip == IF IsFile(fr[p].id, epubPath) THEN Dir(fr[p].id)[epubPath].Zip ELSE ""
       IN  IF ok /\ zip \in DOMAIN Archives
           THEN /\ pc' = [pc EXCEPT ![p] = AfterEntry(zip, 0)]
                /\ fr' = [fr EXCEPT ![p].zr = zip, ![p].i = 1]
                /\ UNCHANGED uploaded
           ELSE Reject(p)
    /\ UNCHANGED <<now, books, disk, resp, call>>

\* a plausible slip: a failed write of one entry is skipped, the loop goes on
UnzipFailureSkips(p, how) == pc' = [pc EXCEPT ![p] = AfterEntry(fr[p].zr, fr[p].i)]
                             /\ fr' = [fr EXCEPT ![p].i = @ + 1]
                             /\ UNCHANGED uploaded

\* lines 276-293 when a step failed: unzipFile returns the error at this entry
UnzipFailure(p, how) == Reject(p)

\* lines 270-294: one iteration of unzipFile's loop; how is "ok", "open" (MkdirAll of
\* the parent, f.Open or os.OpenFile failed) or "copy" (io.Copy failed)
UnzipEntry(p, how) ==
    /\ Quiet
    /\ pc[p] = "entry"
    /\ LET id == fr[p].id
           f == Archives[fr[p].zr][fr[p].i]
           path == pathJoin(<<root, f.Name>>)
           next == /\ pc' = [pc EXCEPT ![p] = AfterEntry(fr[p].zr, fr[p].i)]
                   /\ fr' = [fr EXCEPT ![p].i = @ + 1]
                   /\ UNCHANGED uploaded
       IN  IF f.IsDir
           THEN \* the error of os.MkdirAll is dropped
                /\ disk' = IF how = "ok" /\ ~IsFile(id, path)
                           THEN WriteNode(id, path, DirNode) ELSE disk
                /\ next
           ELSE CASE how = "ok" /\ (~Exists(id, path) \/ IsFile(id, path)) ->
                       /\ disk' = WriteNode(id, path, f.Data)
                       /\ next
                  [] how = "copy" /\ (~Exists(id, path) \/ IsFile(id, path)) ->
                       /\ disk' = WriteNode(id, path, Truncated)
                       /\ UnzipFailure(p, how)
                  [] OTHER ->
                       /\ UNCHANGED disk
                       /\ UnzipFailure(p, how)
    /\ UNCHANGED <<now, books, resp, call>>

\* os.ReadFile succeeds on an existing regular file, unless the read itself fails
Readable(id, path, ok) == ok /\ IsFile(id, path)

\* lines 229-233, findRootfile: read and decode META-INF/container.xml
IngestContainer(p, ok) ==
    /\ Quiet
    /\ pc[p] = "container"
    /\ LET id == fr[p].id
           path == pathJoin(<<root, "META-INF", "container.xml">>)
       IN  IF /\ Readable(id, path, ok)
              /\ Dir(id)[path].Xml.root = "container"
              /\ Len(Dir(id)[path].Xml.Rootfiles) > 0
           THEN /\ fr' = [fr EXCEPT ![p].rootfile = Dir(id)[path].Xml.Rootfiles[1]]
                /\ pc' = [pc EXCEPT ![p] = "opf"]
                /\ UNCHANGED uploaded
           ELSE Reject(p)
    /\ UNCHANGED <<now, books, disk, resp, call>>

\* a plausible slip: parseOPF's error is dropped and ingest goes on with what was decoded
IngestOPFErrorDropped(p, ok) ==
    /\ Quiet
    /\ pc[p] = "opf"
    /\ LET id == fr[p].id
           path == pathJoin(<<root, fr[p].rootfile>>)
       IN  fr' = [fr EXCEPT ![p].opf =
                    IF ok /\ IsFile(id, path) /\ Dir(id)[path].Xml.root = "package"
                    THEN Dir(id)[path].Xml ELSE Package("", "", <<>>, <<>>)]
    /\ pc' = [pc EXCEPT ![p] = "nav"]
    /\ UNCHANGED <<now, books, disk, uploaded, resp, call>>

\* lines 234-237, parseOPF: read and decode the package document
IngestOPF(p, ok) ==
    /\ Quiet
    /\ pc[p] = "opf"
    /\ LET id == fr[p].id
           path == pathJoin(<<root, fr[p].rootfile>>)
       IN  IF Readable(id, path, ok) /\ Dir(id)[path].Xml.root = "package"
           THEN /\ fr' = [fr EXCEPT ![p].opf = Dir(id)[path].Xml]
                /\ pc' = [pc EXCEPT ![p] = "nav"]
                /\ UNCHANGED uploaded
           ELSE Reject(p)
    /\ UNCHANGED <<now, books, disk, resp, call>>

\* extractNav: (nil, err) when the document cannot be read, else its items
extractNav(id, navPath, ok) ==
    IF Readable(id, navPath, ok) THEN extractNavText(Dir(id)[navPath].Text) ELSE NilSlice

\* lines 239-244: the TOC; nav is the value findNavItem returns
IngestNav(p, ok) ==
    /\ Quiet
    /\ pc[p] = "nav"
    /\ \E nav \in findNavItem(fr[p].opf) :
        LET navPath == pathJoin(<<root, normJoin(pathDir(fr[p].rootfile), nav)>>)
            items == IF nav # "" THEN extractNav(fr[p].id, navPath, ok) ELSE Slice(<<>>)
        IN  fr' = [fr EXCEPT ![p].toc = [Items |-> items]]
    /\ pc' = [pc EXCEPT ![p] = "insert"]
    /\ UNCHANGED <<now, books, disk, uploaded, resp, call>>

rootDir == "data/books"

\* a plausible slip: the struct literal leaves RootFile out
bookInfoNoRootFile(f) ==
    [ID |-> f.id, Title |-> TrimSpace(f.opf.Meta.Title),
     Author |-> TrimSpace(f.opf.Meta.Creator), RootFile |-> "",
     RootFS |-> <<rootDir, f.id, root>>, OPF |-> f.opf, TOC |-> f.toc]

\* lines 246-254: the BookInfo built from ingest's locals
bookInfo(f) ==
    [ID |-> f.id, Title |-> TrimSpace(f.opf.Meta.Title),
     Author |-> TrimSpace(f.opf.Meta.Creator), RootFile |-> f.rootfile,
     RootFS |-> <<rootDir, f.id, root>>, OPF |-> f.opf, TOC |-> f.toc]

\* lines 256-259 and UploadEPUB lines 114-115: insert under the write lock, answer 200
IngestInsert(p) ==
    /\ Quiet
    /\ pc[p] = "insert"
    /\ LET info == bookInfo(fr[p])
       IN  /\ books' = (fr[p].id :> info) @@ books
           /\ uploaded' = Append(uploaded, [status |-> 200, id |-> fr[p].id,
                                            title |-> info.Title, author |-> info.Author])
    /\ pc' = [pc EXCEPT ![p] = "done"]
    /\ fr' = [fr EXCEPT ![p] = NoFrame]
    /\ UNCHANGED <<now, disk, resp, call>>

(***************************************************************************)
(* the read handlers                                                       *)
(***************************************************************************)

\* the zero BookInfo behind a non-nil pointer
ZeroBook == [ID |-> NoId, Title |-> "", Author |-> "", RootFile |-> "",
             RootFS |-> <<"", NoId, "">>, OPF |-> Package("", "", <<>>, <<>>),
             TOC |-> [Items |-> NilSlice]]

\* a plausible slip: the map lookup's ok is dropped, an absent key gives a zero record
GetBookByIDNoOk(id) ==
    IF id \in DOMAIN books THEN [b |-> books[id], ok |-> TRUE]
    ELSE [b |-> ZeroBook, ok |-> TRUE]

\* GetBookByID: the record and whether the key is present
GetBookByID(id) ==
    IF id \in DOMAIN books THEN [b |-> books[id], ok |-> TRUE]
    ELSE [b |-> NilPtr, ok |-> FALSE]

\* encoding/json of a slice: null for a nil slice, an array otherwise
JsonArray(slice) == [null |-> slice.isNil, array |-> slice.elems]

NotFound(op, id) == [op |-> op, id |-> id, status |-> 404, body |-> <<>>]
Ok(op, id, body) == [op |-> op, id |-> id, status |-> 200, body |-> body]

\* the fields a listing and GetBook copy out of a record
Public(b) == [ID |-> b.ID, Title |-> b.Title, Author |-> b.Author, RootFile |-> b.RootFile]

\* ListBooks: one entry per record, in the map's (unspecified) iteration order
ListBooks ==
    /\ Quiet
    /\ resp' = Ok("list", NoId, {Public(books[id]) : id \in DOMAIN books})
    /\ UNCHANGED <<now, books, disk, pc, fr, uploaded, call>>

\* GetBook
GetBook(id) ==
    /\ Quiet
    /\ LET r == GetBookByID(id)
       IN  resp' = IF ~r.ok THEN NotFound("get", id) ELSE Ok("get", id, Public(r.b))
    /\ UNCHANGED <<now, books, disk, pc, fr, uploaded, call>>

\* GetMetadata
GetMetadata(id) ==
    /\ Quiet
    /\ LET r == GetBookByID(id)
       IN  resp' = IF ~r.ok THEN NotFound("metadata", id)
                   ELSE Ok("metadata", id, [title |-> r.b.Title, author |-> r.b.Author])
    /\ UNCHANGED <<now, books, disk, pc, fr, uploaded, call>>

\* itemsByID[idref] of GetSpine: the last manifest item with that id, the zero OPFItem
\* when there is none
itemByID(manifest, idref) ==
    LET hits == {k \in 1..Len(manifest) : manifest[k].ID = idref}
    IN  IF hits = {} THEN Item("", "", "")
        ELSE manifest[CHOOSE k \in hits : \A j \in hits : j <= k]

\* lines 165-174: the spine list of a record (a nil slice when the spine is empty)
spineOf(b) ==
    LET entry(sp) ==
            LET it == itemByID(b.OPF.Manifest, sp.IDRef)
            IN  [IDRef |-> sp.IDRef, Href |-> normJoin(pathDir(b.RootFile), it.Href),
                 Type |-> it.MediaType, Title |-> ""]
    IN  IF b.OPF.Spine = <<>> THEN NilSlice
        ELSE Slice([k \in 1..Len(b.OPF.Spine) |-> entry(b.OPF.Spine[k])])

\* GetSpine
GetSpine(id) ==
    /\ Quiet
    /\ LET r == GetBookByID(id)
       IN  resp' = IF ~r.ok THEN NotFound("spine", id)
                   ELSE Ok("spine", id, JsonArray(spineOf(r.b)))
    /\ UNCHANGED <<now, books, disk, pc, fr, uploaded, call>>

\* GetTOC: the JSON of b.TOC
GetTOC(id) ==
    /\ Quiet
    /\ LET r == GetBookByID(id)
       IN  resp' = IF ~r.ok THEN NotFound("toc", id)
                   ELSE Ok("toc", id, [items |-> JsonArray(r.b.TOC.Items)])
    /\ UNCHANGED <<now, books, disk, pc, fr, uploaded, call>>

\* the file route of main: the file rel below the record's RootFS, 404 when the book
\* or the file is not there
ServeFile(id, rel) ==
    /\ Quiet
    /\ LET r == GetBookByID(id)
           path == pathJoin(<<r.b.RootFS[3], rel>>)
       IN  resp' = IF ~r.ok THEN NotFound("file", id)
                   ELSE IF IsFile(r.b.RootFS[2], path)
                   THEN Ok("file", id, Dir(r.b.RootFS[2])[path].Text)
                   ELSE NotFound("file", id)
    /\ UNCHANGED <<now, books, disk, pc, fr, uploaded, call>>

(***************************************************************************)
(* the system                                                              *)
(***************************************************************************)

\* an identifier no upload was given
UnknownId == bookId("nobook.epub", 0, 0)

\* the identifiers a client asks for: cataloged, being ingested, or unknown
ReadIds == DOMAIN books \cup {fr[p].id : p \in Running} \cup {UnknownId}

\* the files a client asks the file route for
ReadRels == {"OEBPS/nav.xhtml"}

Ingest ==
    \E p \in Workers :
        \/ \E u \in Uploads, ok \in BOOLEAN : IngestBegin(p, u, ok)
        \/ \E how \in {"ok", "create", "copy"} : IngestWrite(p, how)
        \/ \E ok \in BOOLEAN : UnzipOpen(p, ok)
        \/ \E how \in {"ok", "open", "copy"} : UnzipEntry(p, how)
        \/ \E ok \in BOOLEAN : IngestContainer(p, ok)
        \/ \E ok \in BOOLEAN : IngestOPF(p, ok)
        \/ \E ok \in BOOLEAN : IngestNav(p, ok)
        \/ IngestInsert(p)

Read ==
    \/ ListBooks
    \/ \E id \in ReadIds :
        \/ GetBook(id)
        \/ GetMetadata(id)
        \/ GetSpine(id)
        \/ GetTOC(id)
        \/ \E rel \in ReadRels : ServeFile(id, rel)

\* the response has been written to the client
Respond ==
    /\ ~Quiet
    /\ resp' = NoResp
    /\ UNCHANGED <<now, books, disk, pc, fr, uploaded, call>>

Next == Tick \/ Ingest \/ Read \/ Respond

Spec == Init /\ [][Next]_vars

(***************************************************************************)
(* the Path Resolver on its own: normJoin over a bounded set of inputs     *)
(***************************************************************************)

MaxBaseDepth == 2   \* directories in a base
MaxRelLen == 3      \* segments in a relative reference

RECURSIVE Words(_, _)
\* the sequences of 1..n elements of S
Words(S, n) ==
    IF n = 0 THEN {}
    ELSE {<<x>> : x \in S} \cup Words(S, n - 1)
         \cup {Append(w, x) : w \in Words(S, n - 1), x \in S}

\* base directories inside the archive root: path.Dir of a rootfile
Bases == {"."} \cup {Join(w, "/") : w \in Words({"OEBPS", "a"}, MaxBaseDepth)}
\* relative references as authored: names, ".", "..", empty segments
Rels == {Join(w, "/") : w \in Words({"x", ".", "..", ""}, MaxRelLen)}

InitPath ==
    /\ now = 0 /\ books = <<>> /\ disk = <<>>
    /\ pc = [p \in Workers |-> "idle"] /\ fr = [p \in Workers |-> NoFrame]
    /\ uploaded = <<>> /\ resp = NoResp
    /\ call \in {[NoCall EXCEPT !.base = b, !.rel = r] : b \in Bases, r \in Rels}

Resolve ==
    /\ ~call.done
    /\ call' = [call EXCEPT !.out = normJoin(call.base, call.rel), !.done = TRUE]
    /\ UNCHANGED <<now, books, disk, pc, fr, uploaded, resp>>

SpecPath == InitPath /\ [][Resolve]_vars

(***************************************************************************)
(* properties                                                              *)
(***************************************************************************)

IsNil(ptr) == "nil" \in DOMAIN ptr

\* the upload request p takes this step
StepOf(p) == fr'[p] # fr[p]

\* this step ends p's ingestion with an error: UploadEPUB answers 400
Rejected(p) ==
    /\ pc[p] # "done" /\ pc'[p] = "done"
    /\ Len(uploaded') = Len(uploaded) + 1
    /\ uploaded'[Len(uploaded')].status = 400

\* the identifiers UploadEPUB has answered 200 with
Accepted == {k \in 1..Len(uploaded) : uploaded[k].status = 200}

\* every field of record b under key id is set
Populated(id, b) ==
    /\ b.ID = id
    /\ b.RootFile # ""
    /\ b.RootFS = <<rootDir, id, root>>
    /\ ~IsNil(b.OPF) /\ b.OPF.root = "package"
    /\ b.Title = TrimSpace(b.OPF.Meta.Title)
    /\ b.Author = TrimSpace(b.OPF.Meta.Creator)
    /\ ~IsNil(b.TOC)

\* a record enters the catalog only out of a request that is past extraction, container
\* and package parsing and TOC extraction, and it is that request's complete record
VisibleOnlyWhenComplete ==
    \A id \in DOMAIN books' :
        (id \notin DOMAIN books \/ books'[id] # books[id]) =>
            \E p \in Workers :
                /\ pc[p] = "insert" /\ fr[p].id = id
                /\ fr[p].zr \in DOMAIN Archives /\ fr[p].i = Len(Archives[fr[p].zr]) + 1
                /\ fr[p].rootfile # "" /\ ~IsNil(fr[p].opf) /\ ~IsNil(fr[p].toc)
                /\ books'[id].RootFile = fr[p].rootfile
                /\ books'[id].OPF = fr[p].opf
                /\ books'[id].TOC = fr[p].toc

\* what list() and get() show is the populated records of the catalog, nothing else
ReadersSeePopulated ==
    /\ \A id \in DOMAIN books : Populated(id, books[id])
    /\ (resp.op = "get" /\ resp.status = 200) =>
            /\ resp.id \in DOMAIN books
            /\ resp.body.ID = resp.id
            /\ resp.body.Title = books[resp.id].Title
            /\ resp.body.Author = books[resp.id].Author
            /\ resp.body.RootFile = books[resp.id].RootFile
    /\ resp.op = "list" =>
            \A e \in resp.body :
                /\ e.ID \in DOMAIN books
                /\ e.Title = books[e.ID].Title /\ e.Author = books[e.ID].Author
                /\ e.RootFile = books[e.ID].RootFile /\ e.RootFile # ""
    /\ \A p \in Workers :
            (pc[p] \in {"write", "unzip", "entry", "container", "opf", "nav", "insert"}
             /\ resp.op = "get" /\ resp.id = fr[p].id /\ resp.status = 200)
                => Populated(resp.id, books[resp.id])

\* C1: under any interleaving of ingestions with list()/get(), a book id is visible
\* only after its extraction, container parsing and package parsing have completed,
\* and the record seen is fully populated; no reader sees a partly filled record.
C1_NoPartialVisibility == [] ReadersSeePopulated /\ [][VisibleOnlyWhenComplete]_vars

\* C1 witness: list() answers with a cataloged book while another ingestion, whose
\* identifier is not visible, is between extraction and insertion
C1_Witness ==
    /\ resp.op = "list" /\ resp.body # {}
    /\ \E p \in Workers :
          /\ pc[p] \in {"entry", "container", "opf", "nav", "insert"}
          /\ fr[p].id \notin DOMAIN books

\* C2: any two successful ingestions receive distinct identifiers, also with the same
\* filename, size and content, sequentially or concurrently; the catalog then holds one
\* entry per successful ingestion, each retrievable with get(id).
C2_DistinctIds ==
    /\ \A j, k \in Accepted : j # k => uploaded[j].id # uploaded[k].id
    /\ Cardinality(DOMAIN books) = Cardinality(Accepted)
    /\ \A k \in Accepted : GetBookByID(uploaded[k].id).ok

\* C3: cataloged is terminal: once a record is in the catalog under an identifier, no
\* later step replaces or removes it; get(id) keeps returning that same record.
C3_CatalogedIsTerminal ==
    [][\A id \in DOMAIN books : id \in DOMAIN books' /\ books'[id] = books[id]]_vars

\* the stage p is in fails on what is on disk: the stored upload is no ZIP file, the
\* container descriptor is missing, malformed or without rootfile, or the package
\* document is missing or malformed
StageFails(p) ==
    LET id == fr[p].id
        cpath == pathJoin(<<root, "META-INF", "container.xml">>)
        ppath == pathJoin(<<root, fr[p].rootfile>>)
    IN  \/ pc[p] = "unzip" /\ ~(IsFile(id, epubPath) /\ Dir(id)[epubPath].Zip \in DOMAIN Archives)
        \/ pc[p] = "container" /\ ~(IsFile(id, cpath) /\ Dir(id)[cpath].Xml.root = "container"
                                    /\ Len(Dir(id)[cpath].Xml.Rootfiles) > 0)
        \/ pc[p] = "opf" /\ ~(IsFile(id, ppath) /\ Dir(id)[ppath].Xml.root = "package")

\* this step of p did not put on disk what its stage writes: the upload as book.epub,
\* or the content of the file entry unzipFile is at
WriteFails(p) ==
    LET id == fr[p].id
        after == IF id \in DOMAIN disk' THEN disk'[id] ELSE <<>>
    IN  \/ /\ pc[p] = "write"
           /\ ~(epubPath \in DOMAIN after /\ after[epubPath] = EpubNode(fr[p].u.Bytes))
        \/ /\ pc[p] = "entry" /\ ~Archives[fr[p].zr][fr[p].i].IsDir
           /\ LET f == Archives[fr[p].zr][fr[p].i]
                  path == pathJoin(<<root, f.Name>>)
              IN  ~(path \in DOMAIN after /\ after[path] = f.Data)

\* a failing stage ends the ingestion with an error, and the failing call leaves the
\* catalog as it was
FailureRejects ==
    \A p \in Workers :
        /\ (StepOf(p) /\ (StageFails(p) \/ WriteFails(p))) => Rejected(p)
        /\ Rejected(p) => books' = books

\* every visible identifier was answered by a successful ingestion
VisibleWereAccepted ==
    \A id \in DOMAIN books : \E k \in Accepted : uploaded[k].id = id

ResolvedTOC(id, b, nav) ==
    LET dir == pathDir(b.RootFile)
        authored == extractNavText(Dir(id)[pathJoin(<<root, normJoin(dir, nav)>>)].Text).elems
    IN  [k \in 1..Len(authored) |->
            [Href |-> normJoin(dir, authored[k].Href), Text |-> authored[k].Text]]

\* C5: every TOC entry returned by toc(id) carries a link resolved relative to the
\* archive root: its href is normJoin(package document's directory, href as authored in
\* the navigation document); chap1.xhtml under OEBPS/content.opf gives OEBPS/chap1.xhtml.
C5_TocHrefsResolved ==
    (resp.op = "toc" /\ resp.status = 200 /\ ~resp.body.items.null) =>
        LET b == books[resp.id]
        IN  \A nav \in findNavItem(b.OPF) \ {""} :
                IsFile(resp.id, pathJoin(<<root, normJoin(pathDir(b.RootFile), nav)>>))
                    => resp.body.items.array = ResolvedTOC(resp.id, b, nav)

\* C6: a spine itemref whose idref matches no manifest item gives, at its position of
\* spine(id), an entry with that idref, an empty href and an empty mediaType, whatever
\* the package document's directory; the other entries carry their resolved hrefs.
C6_MissingItemBlank ==
    (resp.op = "spine" /\ resp.status = 200) =>
        LET b == books[resp.id]
            out == resp.body.array
        IN  /\ Len(out) = Len(b.OPF.Spine)
            /\ \A k \in 1..Len(out) :
                  /\ out[k].IDRef = b.OPF.Spine[k].IDRef
                  /\ IF \E j \in 1..Len(b.OPF.Manifest) : b.OPF.Manifest[j].ID = out[k].IDRef
                     THEN \E j \in 1..Len(b.OPF.Manifest) :
                            /\ b.OPF.Manifest[j].ID = out[k].IDRef
                            /\ out[k].Href = normJoin(pathDir(b.RootFile), b.OPF.Manifest[j].Href)
                     ELSE out[k].Href = "" /\ out[k].Type = ""

\* C7: when the nav/toc-like candidate cannot be read, ingestion succeeds and the TOC
\* stays the empty list: toc(id) returns the same [] as for a book without candidate.
C7_UnreadableNavEmptyList ==
    (resp.op = "toc" /\ resp.status = 200 /\ resp.body.items.array = <<>>) =>
        resp.body.items = JsonArray(Slice(<<>>))

\* a read request by identifier answered not-found whenever the identifier is no key
UnknownIsNotFound ==
    (resp.op \in {"get", "metadata", "spine", "toc", "file"} /\ resp.id \notin DOMAIN books)
        => resp.status = 404

\* this step is a read request being answered
ReadStep == resp.op = "" /\ resp'.op # ""

\* C8: for every identifier that is no key of the catalog, in every reachable catalog
\* state, get, metadata, spine, toc and the file route answer not-found, never a
\* zero/default record, and the lookup leaves the catalog unchanged.
C8_UnknownIdNotFound == [] UnknownIsNotFound /\ [][ReadStep => books' = books]_vars

\* C8 witness: a read of an identifier that is no key, with books in the catalog
C8_Witness ==
    /\ resp.op = "spine" /\ resp.id \notin DOMAIN books /\ resp.status = 404
    /\ DOMAIN books # {}

\* the entry of unzipFile's loop p is at, and its destination
EntryOf(p) == Archives[fr[p].zr][fr[p].i]
DestOf(p) == pathJoin(<<root, EntryOf(p).Name>>)
DiskAfter(id) == IF id \in DOMAIN disk' THEN disk'[id] ELSE <<>>

\* this step of p did not create the directory of the directory entry it is at
DirFails(p) ==
    /\ pc[p] = "entry" /\ EntryOf(p).IsDir
    /\ ~(DestOf(p) \in DOMAIN DiskAfter(fr[p].id) /\ DiskAfter(fr[p].id)[DestOf(p)] = DirNode)

\* C9 as claimed: if creating the file or the directory of any archive entry fails,
\* unzipFile stops at that entry with an error and the ingestion is rejected without
\* cataloging the book.
C9_FailFastAnyEntry ==
    [][\A p \in Workers :
          (StepOf(p) /\ pc[p] = "entry" /\ (WriteFails(p) \/ DirFails(p)))
              => (Rejected(p) /\ books' = books)]_vars

\* C9 amended: a failure to write a file entry stops unzipFile at that entry with an
\* error (the ingestion is rejected, the book is not cataloged, what earlier entries
\* wrote stays on disk); a directory entry never stops it: the error of its MkdirAll is
\* dropped and the loop goes on to the next entry.
C9_FailFastFileEntries ==
    [][\A p \in Workers :
          (StepOf(p) /\ pc[p] = "entry") =>
              /\ WriteFails(p) => (Rejected(p) /\ books' = books)
              /\ EntryOf(p).IsDir =>
                    (~Rejected(p) /\ fr'[p].i = fr[p].i + 1
                     /\ pc'[p] = AfterEntry(fr[p].zr, fr[p].i))
              /\ \A q \in DOMAIN Dir(fr[p].id) \ {DestOf(p)} :
                    q \in DOMAIN DiskAfter(fr[p].id) /\ DiskAfter(fr[p].id)[q] = Dir(fr[p].id)[q]]_vars

\* C9 witness: the directory entry OEBPS/ was not created and the loop went on; the
\* copy of OEBPS/content.opf then failed, the request was rejected, container.xml stays
\* on disk, nav.xhtml was never written, the book is not cataloged
C9_Witness ==
    /\ Len(uploaded) > 0 /\ uploaded[Len(uploaded)].status = 400
    /\ \E id \in DOMAIN disk :
          /\ id \notin DOMAIN books
          /\ \A p \in Workers : fr[p].id # id
          /\ IsFile(id, "unpacked/META-INF/container.xml")
          /\ ~Exists(id, "unpacked/OEBPS")
          /\ Exists(id, "unpacked/OEBPS/content.opf")
          /\ Dir(id)["unpacked/OEBPS/content.opf"] = Truncated
          /\ ~Exists(id, "unpacked/OEBPS/nav.xhtml")

\* the reference climbs above the directory the segments start in: walking segs from
\* depth d, some ".." is met at depth 0
RECURSIVE Climbs(_, _)
Climbs(segs, d) ==
    IF segs = <<>> THEN FALSE
    ELSE IF Head(segs) \in {"", "."} THEN Climbs(Tail(segs), d)
    ELSE IF Head(segs) = ".." THEN d = 0 \/ Climbs(Tail(segs), d - 1)
    ELSE Climbs(Tail(segs), d + 1)

\* rel, resolved from base, leaves the archive root
Escapes(base, rel) == Climbs(Split(base, "/") \o Split(rel, "/"), 0)

\* C10 as claimed: for every base inside the archive root and every non-empty
\* reference, the result of normJoin has no "." segment and no ".." segment, and so
\* names a location inside the archive root.
C10_NoDotSegments ==
    (call.done /\ call.rel # "") =>
        \A k \in 1..Len(Split(call.out, "/")) : Split(call.out, "/")[k] \notin {".", ".."}

\* C10 amended: the result of normJoin is the cleaned path: no empty segment; a "."
\* segment only as the whole result "." (the reference resolves to the archive root
\* itself); ".." segments only as a leading run, present exactly when the reference
\* climbs above the archive root, and only otherwise is the result inside the root.
C10_CleanedPath ==
    (call.done /\ call.rel # "") =>
        LET segs == Split(call.out, "/")
        IN  /\ \A k \in 1..Len(segs) : segs[k] # ""
            /\ (\E k \in 1..Len(segs) : segs[k] = ".") => call.out = "."
            /\ \A k \in 1..Len(segs) : segs[k] = ".." => \A j \in 1..k : segs[j] = ".."
            /\ (segs[1] = "..") <=> Escapes(call.base, call.rel)

\* C10 witness: a reference that climbs above the archive root, resolved
C10_Witness ==
    call.done /\ call.base = "OEBPS" /\ call.rel = "../../x" /\ call.out = "../x"

====
